---- MODULE Spec2Model ----
(* Generic CRUD resource controller of cloud-raiders (server/app/base.py)      *)
(* behind the OAuth2 gate of server/app/security.py, as a state machine: the   *)
(* persisted table, the per-type filter cache, and one action per request.     *)
(* Strings are sequences of one-character strings, so that Python's `in` on a  *)
(* str (substring containment) and SQL's ordering are computed, not assumed.   *)
EXTENDS Integers, Sequences, FiniteSets, TLC

\* ------------------------------------------------------------------ bounds
\* Primary keys of the table are 1..MaxKey.
MaxKey == 2
\* offset and limit of Read-list range over 0..MaxPage.
MaxPage == 2

\* ----------------------------------------------------------------- strings
\* Python's None where a str is expected (a missing `sub`, an absent query
\* parameter); Null is None where an object or a tuple is expected.
None == "None"
Null == <<>>
Some(x) == <<x>>

\* Python `a in b` for two str values: a is a contiguous substring of b.
str_contains(b, a) ==
    \E i \in 0..(Len(b) - Len(a)) : SubSeq(b, i + 1, i + Len(a)) = a

Ord(c) ==
    CASE c = "a" -> 1 [] c = "b" -> 2 [] c = "d" -> 3 [] c = "e" -> 4
      [] c = "i" -> 5 [] c = "l" -> 6 [] c = "m" -> 7 [] c = "n" -> 8
      [] c = "o" -> 9 [] c = "p" -> 10 [] c = "r" -> 11 [] c = "y" -> 12
      [] OTHER -> 0

RECURSIVE str_le(_, _)
\* Lexicographic s <= t, the order ORDER BY uses on a text column.
str_le(s, t) ==
    IF s = <<>> THEN TRUE
    ELSE IF t = <<>> THEN FALSE
    ELSE IF Ord(Head(s)) < Ord(Head(t)) THEN TRUE
    ELSE IF Ord(Head(s)) > Ord(Head(t)) THEN FALSE
    ELSE str_le(Tail(s), Tail(t))

\* ------------------------------------------------------------ config.py
PLAYER == <<"p", "l", "a", "y", "e", "r">>
ADMIN == <<"a", "d", "m", "i", "n">>

\* ----------------------------------------------------------- security.py
\* The user directory: username -> record. `access` is a str, not a list.
FAKE_DB ==
    [admin    |-> [id |-> 1, username |-> "admin", disabled |-> FALSE, access |-> ADMIN],
     user     |-> [id |-> 2, username |-> "user", disabled |-> FALSE, access |-> PLAYER],
     disabled |-> [id |-> 3, username |-> "disabled", disabled |-> TRUE, access |-> PLAYER]]

get_user(db, username) ==
    IF username \in DOMAIN db THEN Some(db[username]) ELSE Null

\* Scope strings a token may carry: the two declared scopes and a fragment
\* of one of them.
PLAY == <<"p", "l", "a", "y">>
TokenScopeSets == {{}, {ADMIN}, {PLAY}}

\* The bearer token oauth2_scheme hands to get_current_user: a string
\* jwt.decode rejects (bad signature, expired, garbage), or a decodable
\* payload. (A request without a bearer token is answered by the
\* OAuth2PasswordBearer scheme itself and never reaches this code.)
BadToken == [kind |-> "undecodable"]
Tokens ==
    {BadToken} \cup
    [kind : {"jwt"}, sub : {"admin", "user", "disabled", "ghost", None},
     scopes : TokenScopeSets]

\* HTTPException(status_code, detail, headers): challenge is the
\* WWW-Authenticate header when there is one.
HTTPException(status, detail) ==
    [status |-> status, detail |-> detail, challenge |-> Null, body |-> Null]

Http401(detail, challenge) ==
    [status |-> 401, detail |-> detail, challenge |-> Some(challenge), body |-> Null]

inactive_user_exception == HTTPException(400, "The current user has been disabled.")

\* scopes: the SecurityScopes of the dependency chain; token: the bearer token.
get_current_user(scopes, token) ==
    LET authenticate_value == [scheme |-> "Bearer", scope |-> scopes]
        credentials_exception == Http401("Could not validate credentials", authenticate_value)
        access_exception == Http401("Not enough permissions", authenticate_value)
    IN  IF token.kind = "undecodable" \/ token.sub = None
        THEN [raised |-> TRUE, exc |-> credentials_exception]
        ELSE LET requested_scopes == token.scopes
                 user == get_user(FAKE_DB, token.sub)
             IN  IF user = Null
                 THEN [raised |-> TRUE, exc |-> credentials_exception]
                 ELSE LET permitted_scopes == user[1].access
                      IN  IF \E scope \in requested_scopes :
                                 ~str_contains(permitted_scopes, scope)
                          THEN [raised |-> TRUE, exc |-> access_exception]
                          ELSE [raised |-> FALSE, user |-> user[1]]

\* Faulty variant: the disabled flag is not looked at.
get_current_active_user_nocheck(current_user) ==
    [raised |-> FALSE, user |-> current_user]

get_current_active_user(current_user) ==
    IF current_user.disabled
    THEN [raised |-> TRUE, exc |-> inactive_user_exception]
    ELSE [raised |-> FALSE, user |-> current_user]

\* Security(get_current_active_user, scopes=scopes) of every generated
\* handler: the handler's scopes, then get_current_active_user's own [PLAYER],
\* reach get_current_user as its SecurityScopes.
SecurityScopes(scopes) == scopes \cup {PLAYER}

Security(scopes, token) ==
    LET current == get_current_user(SecurityScopes(scopes), token)
    IN  IF current.raised THEN current
        ELSE get_current_active_user(current.user)

\* -------------------------------------------------------------- models.py
\* Player{id primary key, username}; values a username takes here.
Al == <<"a", "l">>
Bo == <<"b", "o">>
Names == {Al, Bo}
Keys == 1..MaxKey

\* Request bodies (model_dump() of the Create / Update projection): the
\* Update projection carries no primary key, a Create body may or may not.
CreateBodies ==
    [username : Names] \cup [id : Keys, username : Names]
UpdateBodies == [username : Names]

\* ---------------------------------------------------------------- base.py
VARIABLES
    store,            \* the persisted Player table
    default_filters,  \* Player.__default_filters__
    validator,        \* "default": BaseDB.validate; "override": a Model's own
    read, write,      \* the scope lists register_routes was given
    req,              \* the last request
    resp,             \* its response
    ran,              \* whether its handler body was entered
    before,           \* the table when it arrived
    deleted,          \* keys deleted and not inserted again since
    sess,             \* the last request's store sessions: acquired, still open, dropped
    router,           \* router.routes
    reg,              \* the last register_* call and how it ended
    procs,            \* two concurrent Create requests, step by step
    heap              \* the table rows those two requests insert

vars == <<store, default_filters, validator, read, write, req, resp, ran, before, deleted,
          sess, router, reg, procs, heap>>

Response(status, body) ==
    [status |-> status, detail |-> "", challenge |-> Null, body |-> Some(body)]

\* An exception no handler translates: the server answers 500.
InternalServerError(exc) ==
    [status |-> 500, detail |-> exc, challenge |-> Null, body |-> Null]

\* BaseRead.from_db: cls(**obj.model_dump())
from_db(obj) == obj

\* Faulty variant: a missing primary key is filled in with a default.
to_db_default_id(raw_obj) ==
    [f \in DOMAIN raw_obj \cup {"id"} |->
        IF f \in DOMAIN raw_obj THEN raw_obj[f] ELSE 0]

\* BaseDB.to_db: cls(**raw_obj); Player declares no default, so the object
\* has exactly the fields it was given.
to_db(raw_obj) == raw_obj

model_dump(obj) == obj

\* An unset column attribute reads as None.
_as_id_tuple(self) ==
    IF "id" \in DOMAIN self THEN Some(self.id) ELSE Null

\* Faulty variant: the Model's override is never consulted.
validate_default(self) == <<TRUE, "">>

\* The hook: BaseDB.validate accepts everything; an overriding Model returns
\* (False, message) for the objects it rejects (here: username "bo").
validate(self) ==
    IF validator = "override" /\ self.username = Bo
    THEN <<FALSE, "username not allowed">>
    ELSE <<TRUE, "">>

\* Faulty variant: the lookup never finds a row.
session_get_miss(st, id) == Null

\* session.get(cls, id): the row with that primary key, or None.
session_get(st, id) ==
    IF id # Null /\ id[1] \in DOMAIN st THEN Some(st[id[1]]) ELSE Null

\* session.add(obj); session.commit() for a new object.
session_insert(st, obj) ==
    [k \in DOMAIN st \cup {obj.id} |-> IF k = obj.id THEN obj ELSE st[k]]

\* Faulty variant: the change is never committed.
session_update_nocommit(st, id, obj) == st

\* session.add(obj); session.commit() for the loaded object with identity id.
session_update(st, id, obj) ==
    [k \in (DOMAIN st \ {id}) \cup {obj.id} |-> IF k = obj.id THEN obj ELSE st[k]]

\* Faulty variant: the delete is never committed.
session_delete_nocommit(st, id) == st

\* session.delete(obj); session.commit()
session_delete(st, id) ==
    [k \in DOMAIN st \ {id} |-> st[k]]

\* Session.refresh(instance): the instance is a required argument.
session_refresh(args) ==
    IF Len(args) = 1 THEN "ok" ELSE "TypeError"

\* for k, v in d.items(): setattr(obj, k, v)
setattrs(obj, d) ==
    [f \in DOMAIN obj \cup DOMAIN d |-> IF f \in DOMAIN d THEN d[f] ELSE obj[f]]

NotFound == HTTPException(404, "not found")

\* ------------------------------------------------- reflection (Player)
\* dir(cls) filtered by _class_vars, in dir()'s sorted order.
_class_vars == <<"id", "username">>

\* getattr(clazz, "__annotations__", []) along Player.__mro__: Player, BaseDB,
\* SQLModel, BaseModel carry a dict (none of the library's entries is named
\* like a Player field); `object` has no __annotations__, so the default []
\* is what comes back.
PlayerAnnotations == [id |-> "int | None", username |-> "str"]
NoEntries == [f \in {} |-> "str"]
__mro__ ==
    << [dict |-> TRUE, entries |-> PlayerAnnotations],
       [dict |-> TRUE, entries |-> NoEntries],
       [dict |-> TRUE, entries |-> NoEntries],
       [dict |-> TRUE, entries |-> NoEntries],
       [dict |-> FALSE, entries |-> NoEntries] >>

RECURSIVE _default_filters_loop(_, _, _)
\* The two nested loops from attribute a, class m on, with `defaults` so far:
\* list.get raises AttributeError, defaults.append[...] raises TypeError.
_default_filters_loop(a, m, defaults) ==
    IF a > Len(_class_vars) THEN [raised |-> FALSE, value |-> defaults]
    ELSE IF m > Len(__mro__) THEN _default_filters_loop(a + 1, 1, defaults)
    ELSE LET annotations == __mro__[m]
             cls_attr == _class_vars[a]
         IN  IF ~annotations.dict THEN [raised |-> TRUE, exc |-> "AttributeError"]
             ELSE IF cls_attr \notin DOMAIN annotations.entries
                  THEN _default_filters_loop(a, m + 1, defaults)
             ELSE IF annotations.entries[cls_attr] \in {"str", "Optional[str]"}
                  THEN [raised |-> TRUE, exc |-> "TypeError"]
             ELSE _default_filters_loop(a, m + 1, defaults)

\* cache: cls.__default_filters__. Returns the list and the cache afterwards.
_get_default_filters(cache) ==
    IF cache # <<>> THEN [raised |-> FALSE, value |-> cache, cache |-> cache]
    ELSE LET r == _default_filters_loop(1, 1, <<>>)
         IN  IF r.raised THEN [raised |-> TRUE, exc |-> r.exc, cache |-> cache]
             ELSE [raised |-> FALSE, value |-> r.value, cache |-> r.value]

\* func.lower(column): ASCII lower-casing of a text value.
lower_char(c) ==
    CASE c = "A" -> "a" [] c = "B" -> "b" [] c = "L" -> "l" [] c = "O" -> "o"
      [] OTHER -> c
lower(s) == [i \in 1..Len(s) |-> lower_char(s[i])]

\* The WHERE clause apply_filter adds: a row predicate, or the exception of
\* _get_default_filters. or_() of no argument constrains nothing.
apply_filter(cache, filter) ==
    LET fields == _get_default_filters(cache)
    IN  IF fields.raised THEN fields
        ELSE [raised |-> FALSE, cache |-> fields.cache,
              or_args |-> {fields.value[i] : i \in 1..Len(fields.value)},
              filter |-> filter]

\* Whether row satisfies the query's WHERE clause (where = Null: no clause).
matches(where, row) ==
    \/ where = Null
    \/ where[1].or_args = {}
    \/ \E or_arg \in where[1].or_args :
          str_contains(lower(row[or_arg]), where[1].filter)

\* ---------------------------------------------------------------- queries
key_le(r1, r2, sort) ==
    IF sort = "id" THEN r1.id <= r2.id ELSE str_le(r1.username, r2.username)

\* The row sequences SELECT ... WHERE ... ORDER BY sort direction may return:
\* every arrangement of the matching rows that respects the order (rows with
\* equal sort values come in any order).
ordered_rows(st, where, sort, direction) ==
    LET rows == {st[k] : k \in {j \in DOMAIN st : matches(where, st[j])}}
        n == Cardinality(rows)
    IN  {s \in [1..n -> rows] :
            /\ \A i, j \in 1..n : i # j => s[i] # s[j]
            /\ \A i, j \in 1..n : i < j =>
                  IF direction = "asc" THEN key_le(s[i], s[j], sort)
                  ELSE key_le(s[j], s[i], sort)}

\* OFFSET offset LIMIT limit of a row sequence.
paginate(rows, offset, limit) ==
    LET last == IF offset + limit < Len(rows) THEN offset + limit ELSE Len(rows)
    IN  SubSeq(rows, offset + 1, last)

\* --------------------------------------------------------------- handlers
\* The scope lists register_routes may be given.
ScopeLists == {{PLAYER}, {ADMIN}}
\* The `query` parameter: absent, or a text (possibly empty).
Filters == {Null, Some(<<>>), Some(<<"a">>)}

\* SELECT count(*) FROM (the query with its OFFSET and LIMIT).
count_subquery(st, where, offset, limit) ==
    LET n == Cardinality({k \in DOMAIN st : matches(where, st[k])})
    IN  IF n <= offset THEN 0
        ELSE IF n - offset < limit THEN n - offset ELSE limit

\* The outcomes of one call: [store, cache, resp], one per row order the
\* store may answer with.
_base_read_list_object(st, cache, offset, limit, sort, direction, filter) ==
    LET truthy == filter # Null /\ filter[1] # <<>>
        applied == IF truthy THEN apply_filter(cache, filter[1])
                   ELSE [raised |-> FALSE, cache |-> cache]
    IN  IF applied.raised
        THEN {[store |-> st, cache |-> applied.cache,
               resp |-> InternalServerError(applied.exc)]}
        ELSE LET where == IF truthy THEN Some(applied) ELSE Null
                 count == count_subquery(st, where, offset, limit)
             IN  {[store |-> st, cache |-> applied.cache,
                   resp |-> Response(200, [total |-> count,
                                           data |-> paginate(objects, offset, limit)])] :
                    objects \in ordered_rows(st, where, sort, direction)}

\* Faulty variant: the row read is expunged from the store.
_base_read_single_expunge(st, id) ==
    LET obj == session_get(st, Some(id))
    IN  IF obj = Null THEN [store |-> st, resp |-> NotFound]
        ELSE [store |-> session_delete(st, id),
              resp |-> Response(200, from_db(obj[1]))]

_base_read_single(st, id) ==
    LET obj == session_get(st, Some(id))
    IN  IF obj = Null THEN [store |-> st, resp |-> NotFound]
        ELSE [store |-> st, resp |-> Response(200, from_db(obj[1]))]

\* generated: the key the store assigns when the object has none.
_base_create_object(st, raw_obj, generated) ==
    LET obj == to_db(model_dump(raw_obj))
        valid == validate(obj)
    IN  IF ~valid[1] THEN [store |-> st, resp |-> HTTPException(422, valid[2])]
        ELSE LET obj_id == _as_id_tuple(obj)
                 existing == session_get(st, obj_id)
             IN  IF existing # Null
                 THEN [store |-> st, resp |-> HTTPException(422, "DB Object already exists")]
                 ELSE LET row == IF obj_id = Null
                                 THEN setattrs(obj, [id |-> generated]) ELSE obj
                          committed == session_insert(st, row)
                      IN  IF session_refresh(<<>>) # "ok"
                          THEN [store |-> committed,
                                resp |-> InternalServerError("TypeError")]
                          ELSE [store |-> committed,
                                resp |-> Response(201, from_db(committed[row.id]))]

_base_update_object(st, new_obj, id) ==
    LET found == session_get(st, Some(id))
    IN  IF found = Null THEN [store |-> st, resp |-> NotFound]
        ELSE LET parsed_obj == to_db(model_dump(new_obj))
                 obj == setattrs(found[1], model_dump(parsed_obj))
                 valid == validate(obj)
             IN  IF ~valid[1]
                 THEN [store |-> st, resp |-> HTTPException(422, valid[2]),
                       dirty |-> [k \in {id} |-> obj]]
                 ELSE LET committed == session_update(st, id, obj)
                      IN  IF session_refresh(<<obj>>) # "ok"
                          THEN [store |-> committed,
                                resp |-> InternalServerError("TypeError")]
                          ELSE [store |-> committed,
                                resp |-> Response(200, from_db(committed[obj.id]))]

_base_delete_object(st, id) ==
    LET obj == session_get(st, Some(id))
    IN  IF obj = Null THEN [store |-> st, resp |-> NotFound]
        ELSE [store |-> session_delete(st, id),
              resp |-> [status |-> 204, detail |-> "", challenge |-> Null, body |-> Null]]

\* ----------------------------------------------------------------- actions
\* Query parameters of Read-list.
Pages ==
    [offset : 0..MaxPage, limit : 0..MaxPage, sort : {"id", "username"},
     direction : {"asc", "desc"}, filter : Filters]
DefaultPages ==
    [offset : {0}, limit : {MaxPage}, sort : {"id"}, direction : {"asc"},
     filter : {Null, Some(<<"a">>)}]

\* Callers of the CRUD runs: the token login_for_access_token issues to
\* admin (a `sub`, no scopes), the one it issues to the disabled account, and
\* a string that does not decode.
LoginToken(username) == [kind |-> "jwt", sub |-> username, scopes |-> {}]
Callers == {LoginToken("admin"), LoginToken("disabled"), BadToken}

\* ------------------------------------------------------------------- db.py
\* What a handler left changed in its session without committing it.
pending(outcome) ==
    IF "dirty" \in DOMAIN outcome THEN outcome.dirty ELSE <<>>

\* Faulty variant: the session is closed only when the handler returns.
get_session_noexit(outcome) ==
    [acquired |-> 1,
     open |-> IF outcome.resp.status \in {404, 422, 500} THEN 1 ELSE 0,
     store |-> outcome.store, dropped |-> pending(outcome)]

\* with Session(engine) as session: yield session. One session is opened
\* for the handler; the with block closes it when the request is over,
\* whether the handler returned or raised, and closing drops what was not
\* committed.
get_session(outcome) ==
    LET opened == 1
        closed == 1
    IN  [acquired |-> opened, open |-> opened - closed,
         store |-> outcome.store, dropped |-> pending(outcome)]

NoSession == [acquired |-> 0, open |-> 0, dropped |-> <<>>]
NoCall == [call |-> "none", args |-> <<>>, raised |-> FALSE, exc |-> "", added |-> <<>>]
Procs == {1, 2}
Idle == [pc |-> "idle", body |-> Null, status |-> 0, exc |-> ""]

NoRequest == [op |-> "none", token |-> BadToken, key |-> 0, body |-> Null, page |-> Null]
NoResponse == [status |-> 0, detail |-> "", challenge |-> Null, body |-> Null]

InitWith(routes) ==
    /\ store = <<>>
    /\ default_filters = <<>>
    /\ validator \in {"default", "override"}
    /\ \E r \in routes : read = r[1] /\ write = r[2]
    /\ req = NoRequest
    /\ resp = NoResponse
    /\ ran = FALSE
    /\ before = <<>>
    /\ deleted = {}
    /\ sess = NoSession
    /\ router = <<>>
    /\ reg = NoCall
    /\ procs = [p \in Procs |-> Idle]
    /\ heap = <<>>

\* register_routes(read=["player"], write=["admin"])
Init == InitWith({<<{PLAYER}, {ADMIN}>>})

\* The gate raised: the handler is not called, the session is closed unused.
Reject(op, token, exc) ==
    /\ req' = [op |-> op, token |-> token, key |-> 0, body |-> Null, page |-> Null]
    /\ resp' = exc
    /\ ran' = FALSE
    /\ before' = store
    /\ sess' = NoSession
    /\ UNCHANGED <<store, default_filters, deleted, validator, read, write>>
    /\ UNCHANGED <<router, reg, procs, heap>>

\* The handler ran to its outcome; the session is closed on the way out, so
\* nothing but what was committed stays.
Serve(request, outcome, cache) ==
    /\ req' = request
    /\ resp' = outcome.resp
    /\ ran' = TRUE
    /\ before' = store
    /\ LET closed == get_session(outcome)
       IN  /\ store' = closed.store
           /\ sess' = [acquired |-> closed.acquired, open |-> closed.open,
                       dropped |-> closed.dropped]
    /\ default_filters' = cache
    /\ deleted' =
          (deleted \cup (IF request.op = "delete" /\ outcome.resp.status = 204
                         THEN {request.key} ELSE {}))
          \ (IF request.op = "create" THEN DOMAIN outcome.store ELSE {})
    /\ UNCHANGED <<validator, read, write>>
    /\ UNCHANGED <<router, reg, procs, heap>>

ReadOne(tokens) ==
    \E token \in tokens :
        LET gate == Security(read, token)
        IN  IF gate.raised THEN Reject("read_single", token, gate.exc)
            ELSE \E id \in Keys :
                    Serve([op |-> "read_single", token |-> token, key |-> id,
                           body |-> Null, page |-> Null],
                          _base_read_single(store, id), default_filters)

ReadList(tokens, pages) ==
    \E token \in tokens :
        LET gate == Security(read, token)
        IN  IF gate.raised THEN Reject("read_list", token, gate.exc)
            ELSE \E page \in pages :
                 \E outcome \in _base_read_list_object(store, default_filters,
                        page.offset, page.limit, page.sort, page.direction, page.filter) :
                    Serve([op |-> "read_list", token |-> token, key |-> 0,
                           body |-> Null, page |-> Some(page)],
                          outcome, outcome.cache)

Create(tokens) ==
    \E token \in tokens :
        LET gate == Security(write, token)
        IN  IF gate.raised THEN Reject("create", token, gate.exc)
            ELSE \E obj \in CreateBodies, generated \in Keys :
                    /\ IF "id" \in DOMAIN obj THEN generated = 1
                       ELSE generated \notin DOMAIN store
                    /\ Serve([op |-> "create", token |-> token, key |-> 0,
                              body |-> Some(obj), page |-> Null],
                             _base_create_object(store, obj, generated), default_filters)

Update(tokens) ==
    \E token \in tokens :
        LET gate == Security(write, token)
        IN  IF gate.raised THEN Reject("update", token, gate.exc)
            ELSE \E id \in Keys, obj \in UpdateBodies :
                    Serve([op |-> "update", token |-> token, key |-> id,
                           body |-> Some(obj), page |-> Null],
                          _base_update_object(store, obj, id), default_filters)

Delete(tokens) ==
    \E token \in tokens :
        LET gate == Security(write, token)
        IN  IF gate.raised THEN Reject("delete", token, gate.exc)
            ELSE \E id \in Keys :
                    Serve([op |-> "delete", token |-> token, key |-> id,
                           body |-> Null, page |-> Null],
                          _base_delete_object(store, id), default_filters)

Next ==
    \/ ReadOne(Callers)
    \/ ReadList(Callers, Pages)
    \/ Create(Callers)
    \/ Update(Callers)
    \/ Delete(Callers)

Spec == Init /\ [][Next]_vars

\* The gate under every token and every registration of the two scopes.
InitGate == InitWith(ScopeLists \X ScopeLists)

NextGate ==
    \/ ReadOne(Tokens)
    \/ ReadList(Tokens, DefaultPages)
    \/ Create(Tokens)
    \/ Update(Tokens)
    \/ Delete(Tokens)

SpecGate == InitGate /\ [][NextGate]_vars

\* session.commit() raises (the store is unreachable): nothing is written,
\* the handler does not catch it, and what it had added to or deleted from
\* the session stays uncommitted.
commit_failure(st, outcome) ==
    LET touched == {k \in DOMAIN st \cup DOMAIN outcome.store :
                       \/ k \notin DOMAIN st
                       \/ k \notin DOMAIN outcome.store
                       \/ st[k] # outcome.store[k]}
    IN  [store |-> st, resp |-> InternalServerError("OperationalError"),
         dirty |-> [k \in touched |->
                      IF k \in DOMAIN outcome.store THEN outcome.store[k] ELSE st[k]]]

\* A write whose handler gets as far as session.commit(), and the commit fails.
StoreFailure(tokens) ==
    \E token \in tokens :
        /\ ~Security(write, token).raised
        /\ \/ \E obj \in CreateBodies, generated \in Keys :
                 LET outcome == _base_create_object(store, obj, generated)
                 IN  /\ IF "id" \in DOMAIN obj THEN generated = 1
                        ELSE generated \notin DOMAIN store
                     /\ outcome.store # store
                     /\ Serve([op |-> "create", token |-> token, key |-> 0,
                               body |-> Some(obj), page |-> Null],
                              commit_failure(store, outcome), default_filters)
           \/ \E id \in Keys, obj \in UpdateBodies :
                 LET outcome == _base_update_object(store, obj, id)
                 IN  /\ outcome.resp.status = 200
                     /\ Serve([op |-> "update", token |-> token, key |-> id,
                               body |-> Some(obj), page |-> Null],
                              commit_failure(store, outcome), default_filters)
           \/ \E id \in Keys :
                 LET outcome == _base_delete_object(store, id)
                 IN  /\ outcome.resp.status = 204
                     /\ Serve([op |-> "delete", token |-> token, key |-> id,
                               body |-> Null, page |-> Null],
                              commit_failure(store, outcome), default_filters)

\* The five operations over a store whose commits may fail.
NextSession ==
    \/ ReadOne(Callers)
    \/ ReadList(Callers, DefaultPages)
    \/ Create(Callers)
    \/ Update(Callers)
    \/ Delete(Callers)
    \/ StoreFailure(Callers)

SpecSession == Init /\ [][NextSession]_vars

\* ------------------------------------------------------------ registration
\* The router holds at most MaxRoutes routes.
MaxRoutes == 3
RouteNames == {"players", "raids"}

\* Player.__table__.primary_key, in declaration order.
primary_key == <<"id">>

\* What __init_subclass__ leaves on Player: neither create_class nor
\* update_class is declared, so __create_class__ and __update_class__ are
\* never set.
ClassAttributes == {"__read_class__", "__default_filters__"}

Raise(exc) == [raised |-> TRUE, exc |-> exc, added |-> <<>>]
Added(api_routes) == [raised |-> FALSE, exc |-> "", added |-> api_routes]

\* cls.<name>: AttributeError when the class has no such attribute.
class_getattr(name) ==
    IF name \in ClassAttributes THEN Added(<<>>) ELSE Raise("AttributeError")

\* "/{" + "}/{".join(key names) + "}": one path segment per primary-key field.
_as_id_endpoint == [i \in 1..Len(primary_key) |-> <<"{", primary_key[i], "}">>]

\* list[values] subscripts the type: a generic alias, not the list(values) of parameters.
list_subscript(x) == [kind |-> "GenericAlias", items |-> x]

\* inspect.Signature(parameters): reads .kind of every element, which an
\* alias does not provide.
Signature(parameters) ==
    IF parameters.kind = "list" THEN Added(<<>>) ELSE Raise("AttributeError")

\* old_sig's parameters without kwargs, the primary keys appended, handed to
\* Signature as list[...].
_create_id_signature(old_sig) ==
    LET modified_sig == SelectSeq(old_sig, LAMBDA prm : prm # "kwargs") \o primary_key
    IN  Signature(list_subscript(modified_sig))

api_route(method, path, scopes) ==
    [method |-> method, path |-> path, scopes |-> scopes]

register_read_single(route, scopes) ==
    LET path == <<route>> \o _as_id_endpoint
        new_sig == _create_id_signature(<<"current_user", "session", "kwargs">>)
    IN  IF new_sig.raised THEN new_sig
        ELSE Added(<<api_route("GET", path, scopes)>>)

register_read_list(route, scopes) ==
    Added(<<api_route("GET", <<route>>, scopes)>>)

register_create(route, scopes) ==
    LET create_class == class_getattr("__update_class__")
    IN  IF create_class.raised THEN create_class
        ELSE Added(<<api_route("POST", <<route>>, scopes)>>)

register_update(route, scopes) ==
    LET update_class == class_getattr("__update_class__")
        new_sig == _create_id_signature(<<"current_user", "session", "obj", "kwargs">>)
    IN  IF update_class.raised THEN update_class
        ELSE IF new_sig.raised THEN new_sig
        ELSE Added(<<api_route("PATCH", <<route>>, scopes)>>)

\* keywords: the names the call passes; the method takes router, route, scopes.
register_delete(keywords, route, scopes) ==
    LET new_sig == _create_id_signature(<<"current_user", "session", "kwargs">>)
    IN  IF keywords # {"router", "route", "scopes"} THEN Raise("TypeError")
        ELSE IF new_sig.raised THEN new_sig
        ELSE Added(<<api_route("DELETE", <<route>>, scopes)>>)

RECURSIVE run_steps(_, _)
\* The calls in order; the first that raises ends the sequence, and the
\* routes added until then stay on the router.
run_steps(steps, done) ==
    IF steps = <<>> THEN Added(done)
    ELSE IF Head(steps).raised
         THEN [raised |-> TRUE, exc |-> Head(steps).exc, added |-> done]
    ELSE run_steps(Tail(steps), done \o Head(steps).added)

register_routes(route, read_scopes, write_scopes) ==
    run_steps(<< register_read_single(route, read_scopes),
                 register_read_list(route, read_scopes),
                 register_create(route, write_scopes),
                 register_update(route, write_scopes),
                 register_delete({"router", "rotue", "scopes"}, route, write_scopes) >>,
              <<>>)

\* One registration call on the router, with its outcome.
Register(call, args, result) ==
    /\ Len(router) < MaxRoutes
    /\ router' = router \o result.added
    /\ reg' = [call |-> call, args |-> args, raised |-> result.raised,
               exc |-> result.exc, added |-> result.added]
    /\ UNCHANGED <<store, default_filters, validator, read, write, req, resp,
                   ran, before, deleted, sess, procs, heap>>

RegisterReadSingle ==
    \E route \in RouteNames, scopes \in ScopeLists :
        Register("register_read_single", <<route, scopes>>,
                 register_read_single(route, scopes))

RegisterReadList ==
    \E route \in RouteNames, scopes \in ScopeLists :
        Register("register_read_list", <<route, scopes>>,
                 register_read_list(route, scopes))

RegisterCreate ==
    \E route \in RouteNames, scopes \in ScopeLists :
        Register("register_create", <<route, scopes>>,
                 register_create(route, scopes))

RegisterUpdate ==
    \E route \in RouteNames, scopes \in ScopeLists :
        Register("register_update", <<route, scopes>>,
                 register_update(route, scopes))

RegisterDelete ==
    \E route \in RouteNames, scopes \in ScopeLists :
        Register("register_delete", <<route, scopes>>,
                 register_delete({"router", "route", "scopes"}, route, scopes))

RegisterRoutes ==
    \E route \in RouteNames, read_scopes \in ScopeLists, write_scopes \in ScopeLists :
        Register("register_routes", <<route, read_scopes, write_scopes>>,
                 register_routes(route, read_scopes, write_scopes))

NextRegister ==
    \/ RegisterReadSingle
    \/ RegisterReadList
    \/ RegisterCreate
    \/ RegisterUpdate
    \/ RegisterDelete
    \/ RegisterRoutes

SpecRegister == Init /\ [][NextRegister]_vars

\* ------------------------------------------------------ concurrent Create
\* Two requests run _base_create_object at once, each in its own session,
\* over the table `heap` (the rows in the order they were committed).
heap_keys(table) == {table[i].id : i \in DOMAIN table}

\* session.get(cls, obj_id) against the committed rows.
heap_get(table, id) ==
    IF id # Null /\ id[1] \in heap_keys(table)
    THEN Some(table[CHOOSE i \in DOMAIN table : table[i].id = id[1]])
    ELSE Null

\* Faulty variant: the table accepts a second row with the same primary key.
commit_insert_unchecked(table, obj) ==
    [raised |-> FALSE, exc |-> "", table |-> Append(table, obj)]

\* session.add(obj); session.commit(): the INSERT is refused when the
\* primary key is already there (Player.id is the primary key).
commit_insert(table, obj) ==
    IF obj.id \in heap_keys(table)
    THEN [raised |-> TRUE, exc |-> "IntegrityError", table |-> table]
    ELSE [raised |-> FALSE, exc |-> "", table |-> Append(table, obj)]

Step(p, pc, body, status, exc) ==
    /\ procs' = [procs EXCEPT ![p] = [pc |-> pc, body |-> body,
                                      status |-> status, exc |-> exc]]
    /\ UNCHANGED <<store, default_filters, validator, read, write, req, resp,
                   ran, before, deleted, sess, router, reg>>

\* obj = cls.to_db(raw_obj.model_dump()); obj.validate()
BeginCreate ==
    \E p \in Procs, raw_obj \in CreateBodies :
        /\ procs[p].pc = "idle"
        /\ LET obj == to_db(model_dump(raw_obj))
               valid == validate(obj)
           IN  IF ~valid[1] THEN Step(p, "done", Some(obj), 422, "")
               ELSE Step(p, "check", Some(obj), 0, "")
        /\ UNCHANGED heap

\* existing = session.get(cls, obj_id); 422 when there is one.
CheckExisting ==
    \E p \in Procs :
        /\ procs[p].pc = "check"
        /\ LET obj == procs[p].body[1]
               existing == heap_get(heap, _as_id_tuple(obj))
           IN  IF existing # Null THEN Step(p, "done", Some(obj), 422, "")
               ELSE Step(p, "commit", Some(obj), 0, "")
        /\ UNCHANGED heap

\* session.add(obj); session.commit(); session.refresh(); return.
Commit ==
    \E p \in Procs, generated \in Keys :
        /\ procs[p].pc = "commit"
        /\ LET obj == procs[p].body[1]
               row == IF _as_id_tuple(obj) = Null
                      THEN setattrs(obj, [id |-> generated]) ELSE obj
               committed == commit_insert(heap, row)
           IN  /\ IF "id" \in DOMAIN obj THEN generated = 1
                  ELSE generated \notin heap_keys(heap)
               /\ heap' = committed.table
               /\ IF committed.raised
                  THEN Step(p, "done", Some(obj), 500, committed.exc)
                  ELSE IF session_refresh(<<>>) # "ok"
                  THEN Step(p, "done", Some(row), 500, "TypeError")
                  ELSE Step(p, "done", Some(row), 201, "")

NextRace ==
    \/ BeginCreate
    \/ CheckExisting
    \/ Commit

SpecRace == Init /\ [][NextRace]_vars

\* ------------------------------------------------------------- properties
\* The scopes the last request's operation declares as required.
Required ==
    IF req.op \in {"read_single", "read_list"} THEN read ELSE write

\* The scopes the directory grants a principal.
Granted(username) == {FAKE_DB[username].access}

Served == req.op # "none" /\ ran
CreatedKeys == DOMAIN store \ DOMAIN before

\* C1: the total of a Read-list answer is the number of rows of the whole
\* table that match the filter, whatever offset and limit are. (An answer is
\* only produced without a filter text, where every row matches.)
C1_TotalIsFilteredCount ==
    (Served /\ req.op = "read_list" /\ resp.status = 200)
        => resp.body[1].total = Cardinality(DOMAIN before)

\* C2: a request of a principal whose granted scopes do not include every
\* scope the operation requires is rejected by the gate with an error, and
\* the handler does not run, whatever scopes the token carries.
C2_MissingScopeRejected ==
    (/\ req.op # "none"
     /\ req.token.kind = "jwt"
     /\ req.token.sub \in DOMAIN FAKE_DB
     /\ ~(Required \subseteq Granted(req.token.sub)))
        => (~ran /\ resp.status \in {400, 401} /\ store = before)

\* The last request's token got through get_current_user as a disabled account.
ResolvesToDisabled ==
    /\ req.op # "none"
    /\ req.token.kind = "jwt"
    /\ req.token.sub \in DOMAIN FAKE_DB
    /\ FAKE_DB[req.token.sub].disabled
    /\ \A scope \in req.token.scopes : str_contains(FAKE_DB[req.token.sub].access, scope)

\* C3: a request whose token resolves to a disabled principal is answered
\* 400 on every operation, the handler body does not run and the table is
\* unchanged, also when the principal holds the required scopes.
C3_DisabledRejected ==
    ResolvesToDisabled
        => (resp = inactive_user_exception /\ resp.status = 400 /\ ~ran /\ store = before)

C3_Witness ==
    /\ ResolvesToDisabled
    /\ Required \subseteq Granted(req.token.sub)
    /\ req.op = "delete"
    /\ resp.status = 400

\* The token is invalid, or carries a scope the principal is not granted.
InvalidToken ==
    \/ req.token.kind = "undecodable"
    \/ req.token.sub = None
    \/ req.token.sub \notin DOMAIN FAKE_DB
    \/ ~(req.token.scopes \subseteq Granted(req.token.sub))

\* C4: an invalid token (undecodable, without `sub`, or of an unknown
\* username), and a token whose scopes exceed the principal's granted scopes,
\* is answered 401 with a WWW-Authenticate challenge naming the operation's
\* required scopes.
C4_InvalidToken401 ==
    (req.op # "none" /\ InvalidToken)
        => (/\ resp.status = 401
            /\ ~ran
            /\ resp.challenge # Null
            /\ Required \subseteq resp.challenge[1].scope)

\* C5: Create by a caller the gate lets through, with a key not in the table
\* and a body validate() accepts, answers 201, and a Read-one of the created
\* key then returns the created object's fields.
C5_ReadAfterWrite ==
    (/\ Served /\ req.op = "create"
     /\ validate(req.body[1])[1]
     /\ ("id" \in DOMAIN req.body[1] => req.body[1].id \notin DOMAIN before))
        => (/\ resp.status = 201
            /\ \E k \in CreatedKeys :
                  /\ _base_read_single(store, k).resp.status = 200
                  /\ _base_read_single(store, k).resp.body = resp.body
                  /\ resp.body[1].username = req.body[1].username)

\* C6: Delete of an absent key answers 404 and leaves the table as it was;
\* Delete of a present key removes that row only and answers 204; from then
\* on the key is absent, and Read-one, Update and Delete of it answer 404,
\* until a Create inserts it again.
C6_DeleteTerminal ==
    /\ (Served /\ req.op = "delete" /\ req.key \notin DOMAIN before)
          => (resp.status = 404 /\ store = before)
    /\ (Served /\ req.op = "delete" /\ req.key \in DOMAIN before)
          => (/\ resp.status = 204
              /\ store = [k \in DOMAIN before \ {req.key} |-> before[k]])
    /\ deleted \cap DOMAIN store = {}
    /\ (/\ Served /\ req.op \in {"read_single", "update", "delete"}
        /\ req.key \in deleted /\ req.key \notin DOMAIN before)
          => (resp.status = 404 /\ store = before)

C6_Witness ==
    /\ Served /\ req.op = "read_single"
    /\ req.key \in deleted
    /\ resp.status = 404
    /\ store # <<>>

\* C7: Create with a body whose primary key is already in the table answers
\* 422 and leaves the table as it was.
C7_DuplicateCreateRejected ==
    (/\ Served /\ req.op = "create"
     /\ "id" \in DOMAIN req.body[1]
     /\ req.body[1].id \in DOMAIN before)
        => (resp.status = 422 /\ store = before)

C7_Witness ==
    /\ Served /\ req.op = "create"
    /\ "id" \in DOMAIN req.body[1]
    /\ req.body[1].id \in DOMAIN before
    /\ before[req.body[1].id].username # req.body[1].username
    /\ resp.detail = "DB Object already exists"

\* The override of validate() rejects the object the last request builds.
Rejected(body) == validator = "override" /\ body.username = Bo

\* C8: Update of an absent key answers 404 and changes nothing; Update of a
\* present key (with a result validate() accepts) overwrites the row's fields
\* with the body's, keeps it under the same key, answers with the Read
\* projection of the stored row, and a Read-one of the key returns the same.
C8_UpdateOverwrites ==
    /\ (Served /\ req.op = "update" /\ req.key \notin DOMAIN before)
          => (resp.status = 404 /\ store = before)
    /\ (/\ Served /\ req.op = "update" /\ req.key \in DOMAIN before
        /\ ~Rejected(req.body[1]))
          => (/\ resp.status = 200
              /\ store = [before EXCEPT ![req.key] =
                              [id |-> req.key, username |-> req.body[1].username]]
              /\ resp.body = Some(store[req.key])
              /\ _base_read_single(store, req.key).resp = resp)

C8_Witness ==
    /\ Served /\ req.op = "update"
    /\ req.key \in DOMAIN before
    /\ before[req.key].username = Al
    /\ resp.status = 200
    /\ resp.body[1] = [id |-> req.key, username |-> Bo]

\* C9: when validate() reports failure, Create and Update of an existing key
\* answer 422 with the message validate() returned, and the table is as it
\* was before the request.
C9_ValidationFailure ==
    (/\ Served /\ req.op \in {"create", "update"}
     /\ req.op = "update" => req.key \in DOMAIN before
     /\ Rejected(req.body[1]))
        => (/\ resp.status = 422
            /\ resp.detail = "username not allowed"
            /\ store = before)

C9_Witness ==
    /\ Served /\ req.op = "update"
    /\ req.key \in DOMAIN before
    /\ before[req.key].username = Al
    /\ Rejected(req.body[1])
    /\ resp.status = 422

\* C10: every handler invocation by a caller the gate lets through ends in
\* success or in 404 or 422; none ends in an untranslated 500.
C10_NoInternalError ==
    Served => resp.status \in {200, 201, 204, 404, 422}

\* The rows of table st the filter text selects: every row without a text,
\* else the rows whose string field contains it, compared case-insensitively.
Selected(st, filter) ==
    {st[k] : k \in {j \in DOMAIN st :
        \/ filter = Null
        \/ filter[1] = <<>>
        \/ str_contains(lower(st[j].username), lower(filter[1]))}}

\* The arrangements of a set of rows in the requested order.
Arrangements(S, sort, direction) ==
    {s \in [1..Cardinality(S) -> S] :
        /\ \A i, j \in DOMAIN s : i # j => s[i] # s[j]
        /\ \A i, j \in DOMAIN s : i < j =>
              IF direction = "asc" THEN key_le(s[i], s[j], sort)
              ELSE key_le(s[j], s[i], sort)}

\* C11: Read-list answers, without an error, with at most `limit` rows, which
\* are the rows at positions offset .. offset+limit-1 of the filtered, sorted
\* sequence; an offset at or past its end gives an empty page.
C11_PaginationBounds ==
    (Served /\ req.op = "read_list")
        => LET page == req.page[1]
               n == Cardinality(Selected(before, page.filter))
           IN  /\ resp.status = 200
               /\ Len(resp.body[1].data) <= page.limit
               /\ page.offset >= n => resp.body[1].data = <<>>
               /\ \E s \in Arrangements(Selected(before, page.filter),
                                        page.sort, page.direction) :
                     /\ \A i \in DOMAIN resp.body[1].data :
                           /\ page.offset + i <= n
                           /\ resp.body[1].data[i] = s[page.offset + i]
                     /\ Len(resp.body[1].data) < page.limit
                           => page.offset + Len(resp.body[1].data) >= n

\* C12: with a filter text, Read-list returns exactly the rows whose string
\* field contains the text, compared case-insensitively; with an empty or
\* absent text it returns all rows (seen on a page that holds the table).
C12_FilterSelectsRows ==
    (/\ Served /\ req.op = "read_list"
     /\ req.page[1].offset = 0
     /\ req.page[1].limit >= Cardinality(DOMAIN before))
        => (/\ resp.status = 200
            /\ {resp.body[1].data[i] : i \in DOMAIN resp.body[1].data}
                  = Selected(before, req.page[1].filter))

\* C16: a Read-one or Read-list that ran leaves the store as it was, and a
\* Read-one that follows a Read-one of the same key, with no other request in
\* between, gets the identical response (the same projection, or 404 again).
C16_ReadsLeaveStore ==
    [][/\ (ran' /\ req'.op \in {"read_single", "read_list"}) => store' = store
       /\ (/\ Served /\ req.op = "read_single"
           /\ ran' /\ req'.op = "read_single" /\ req'.key = req.key)
             => resp' = resp]_vars

\* C16 witness: a Read-one answered with a projection over a non-empty store.
C16_Witness ==
    /\ Served /\ req.op = "read_single"
    /\ resp.status = 200
    /\ req.key \in DOMAIN store
    /\ store = before

\* C18: after a successful Update(key, body) the object is still stored under
\* `key` with that primary key, the store has the same keys as before, and
\* every other row is as it was.
C18_UpdateKeepsKey ==
    (Served /\ req.op = "update" /\ resp.status = 200)
        => (/\ DOMAIN store = DOMAIN before
            /\ req.key \in DOMAIN store
            /\ store[req.key].id = req.key
            /\ store[req.key].id = before[req.key].id
            /\ \A k \in DOMAIN store \ {req.key} : store[k] = before[k])

\* C18 witness: a successful Update that changed a field of its target while
\* another row is stored.
C18_Witness ==
    /\ Served /\ req.op = "update" /\ resp.status = 200
    /\ req.key \in DOMAIN before
    /\ store[req.key].username # before[req.key].username
    /\ DOMAIN store # {req.key}

\* The keys whose row differs between two tables.
ChangedKeys(st1, st2) ==
    {k \in DOMAIN st1 \cup DOMAIN st2 :
        \/ k \notin DOMAIN st1
        \/ k \notin DOMAIN st2
        \/ st1[k] # st2[k]}

\* C19: a request answered 401, 400, 404 or 422 leaves the store as it was;
\* the store changes only in a Create, Update or Delete answered with success,
\* and then only in the row with the addressed primary key.
C19_OnlySuccessChangesStore ==
    (req.op # "none")
        => (/\ resp.status \in {400, 401, 404, 422} => store = before
            /\ store # before
                  => (/\ req.op \in {"create", "update", "delete"}
                      /\ resp.status \in {200, 201, 204}
                      /\ Cardinality(ChangedKeys(before, store)) = 1
                      /\ req.op \in {"update", "delete"}
                            => ChangedKeys(before, store) = {req.key}))

\* A Read-list with a filter text ran: _get_default_filters was called.
FiltersCalled ==
    /\ Served /\ req.op = "read_list"
    /\ req.page[1].filter # Null /\ req.page[1].filter[1] # <<>>

\* C15: once _get_default_filters has been called on the type, a later call
\* returns the cached list and leaves the cache as it is.
C15_FilterCacheWrittenOnce ==
    [][(FiltersCalled /\ FiltersCalled')
          => (/\ resp'.status = 200
              /\ default_filters # <<>>
              /\ default_filters' = default_filters)]_vars

FiveRoutes(route, read_scopes, write_scopes) ==
    LET single == <<route>> \o [i \in 1..Len(primary_key) |-> <<"{", primary_key[i], "}">>]
    IN  { [method |-> "GET", path |-> single, scopes |-> read_scopes],
          [method |-> "GET", path |-> <<route>>, scopes |-> read_scopes],
          [method |-> "POST", path |-> <<route>>, scopes |-> write_scopes],
          [method |-> "PATCH", path |-> single, scopes |-> write_scopes],
          [method |-> "DELETE", path |-> single, scopes |-> write_scopes] }

\* C13: register_routes(router, route, read, write) completes without error
\* and has added exactly the five routes to the router.
C13_FiveRoutesRegistered ==
    (reg.call = "register_routes")
        => (/\ ~reg.raised
            /\ Len(reg.added) = 5
            /\ {reg.added[i] : i \in DOMAIN reg.added}
                  = FiveRoutes(reg.args[1], reg.args[2], reg.args[3]))

\* C17: however two concurrent Creates interleave, the table holds at most
\* one row per primary key and at most one of the requests for a key is
\* answered 201.
C17_OneRowPerKey ==
    \A k \in Keys :
        /\ Cardinality({i \in DOMAIN heap : heap[i].id = k}) <= 1
        /\ Cardinality({p \in Procs :
              /\ procs[p].status = 201
              /\ procs[p].body[1].id = k}) <= 1

\* C17 witness: both requests passed the existence check for the same key
\* and reached the commit; one row was stored and the other commit was
\* refused by the table.
C17_Witness ==
    \E p, q \in Procs :
        /\ p # q
        /\ procs[p].pc = "done" /\ procs[p].exc = "IntegrityError"
        /\ procs[q].pc = "done" /\ procs[q].exc = "TypeError"
        /\ procs[p].body[1].id = procs[q].body[1].id
        /\ Cardinality({i \in DOMAIN heap : heap[i].id = procs[p].body[1].id}) = 1

====
